---- MODULE Spec2Model ----
(***************************************************************************)
(* Model of the libsql shell (src/rust/libsql-shell/src/main.rs): the       *)
(* statement segmenter StrStatements::next, run_statement, the directive   *)
(* dispatcher run_command and the read loop of main.                        *)
(*                                                                         *)
(* A Rust String is modelled as the sequence of its characters; each       *)
(* character is a one-element TLA+ string, and Utf8Len gives the number of *)
(* bytes of its UTF-8 encoding.  Byte-offset slicing (value[a..b]) is      *)
(* modelled on byte offsets, as Rust does it: it aborts the process when   *)
(* an offset is not a character boundary.                                  *)
(***************************************************************************)
EXTENDS Integers, Sequences, FiniteSets, TLC

VARIABLES
    value,      \* StrStatements.value: the segmenter's buffer
    before,     \* the buffer as it was when the last next() was called
    result,     \* what the last next() returned: Some(stmt), None, or a panic
    yielded,    \* statements yielded so far by the current StrStatements
    orig,       \* the string the current StrStatements was built from
    pc,         \* where the process is
    leftovers,  \* main: the carry-over text
    prompt,     \* main: the prompt of the last/pending readline
    history,    \* rustyline's in-memory history (add_history_entry)
    routed,     \* what the last Ok(line) was turned into
    executed,   \* what run_statement did since the last readline returned
    fragments,  \* raw lines read since the last emission or interrupt
    discarded,  \* the pending text dropped by the last interrupt
    lastRead,   \* what the last readline returned
    reads,      \* number of readline calls so far
    exitStatus, \* process exit status, -1 while running
    saved       \* save_history was called

vars == <<value, before, result, yielded, orig, pc, leftovers, prompt, history,
          routed, executed, fragments, discarded, lastRead, reads, exitStatus, saved>>

segVars == <<value, before, result, yielded, orig>>
replVars == <<leftovers, prompt, history, routed, executed, fragments, discarded,
              lastRead, reads, exitStatus, saved>>

----------------------------------------------------------------------------
(* Bounds *)

\* longest buffer (in characters) handed to the segmenter in SegSpec
MaxLen == 5
\* number of readline calls in one run of the read loop
MaxReads == 3

----------------------------------------------------------------------------
(* Strings *)

\* a character that takes three bytes in UTF-8 (such as U+20AC)
Wide == "EUR"
TAB == "\t"

Utf8Len(c) == IF c = Wide THEN 3 ELSE 1

\* str::len: the sum of the characters' Utf8Len
ByteLen(s) ==
    Len(s) + (Utf8Len(Wide) - 1) * Cardinality({i \in 1..Len(s) : s[i] = Wide})

\* the positions of the characters of s that take more than one byte
WidePositions(s) == {i \in 1..Len(s) : Utf8Len(s[i]) > 1}

\* the byte offsets at which the characters of s start, and its end: the
\* character with 0-based index k starts after the k characters before it
CharOffsets(s) ==
    LET wide == WidePositions(s) IN
    [k \in 0..Len(s) |-> k + (Utf8Len(Wide) - 1) * Cardinality({i \in wide : i <= k})]

\* str::is_char_boundary
IsCharBoundary(s, b) ==
    LET off == CharOffsets(s) IN \E k \in 0..Len(s) : off[k] = b

CharIndexAt(s, b) ==
    LET off == CharOffsets(s) IN CHOOSE k \in 0..Len(s) : off[k] = b

\* s[from..to] does not panic
SliceOk(s, from, to) ==
    /\ from <= to
    /\ IsCharBoundary(s, from)
    /\ IsCharBoundary(s, to)

\* s[from..to], byte offsets, when SliceOk
ByteSlice(s, from, to) == SubSeq(s, CharIndexAt(s, from) + 1, CharIndexAt(s, to))

\* s[from..]
ByteSliceFrom(s, from) == ByteSlice(s, from, ByteLen(s))

\* char::is_whitespace, on the characters of the model
IsWhitespace(c) == c \in {" ", TAB}

RECURSIVE TrimStart(_)
TrimStart(s) ==
    IF s # <<>> /\ IsWhitespace(Head(s)) THEN TrimStart(Tail(s)) ELSE s

RECURSIVE TrimEnd(_)
TrimEnd(s) ==
    IF s # <<>> /\ IsWhitespace(s[Len(s)]) THEN TrimEnd(SubSeq(s, 1, Len(s) - 1)) ELSE s

Trim(s) == TrimEnd(TrimStart(s))

StartsWith(s, c) == s # <<>> /\ s[1] = c
EndsWith(s, c) == s # <<>> /\ s[Len(s)] = c

----------------------------------------------------------------------------
(* StrStatements::next *)

None == [kind |-> "None", stmt |-> <<>>]
Some(s) == [kind |-> "Some", stmt |-> s]
Panic == [kind |-> "Panic", stmt |-> <<>>]
NoCall == [kind |-> "NoCall", stmt |-> <<>>]

\* a next() that consumes the bare terminators it skipped before giving up
ExhaustedDroppingSkipped(v, pos) ==
    [res |-> None, value |-> IF SliceOk(v, pos, ByteLen(v)) THEN ByteSliceFrom(v, pos) ELSE v]

\* the loop ran off the end of the buffer: line 67
Exhausted(v, pos) == [res |-> None, value |-> v]

\* the value of `embedded` when the loop reaches character index `index`:
\* toggled once by every ' before it (lines 49, 52-55)
Embedded(v, index) == Cardinality({j \in 1..index : v[j] = "'"}) % 2 = 1

\* the character indexes at which the loop gets past lines 52-58
Boundaries(v) == {i \in 0..(Len(v) - 1) : v[i + 1] = ";" /\ ~Embedded(v, i)}

\* lines 51-65: the loop over self.value.chars().enumerate(), from character
\* index `from` on: it runs to the next unembedded ';', at `index`, slices the
\* candidate, and either skips it (pos = index + 1, continue) or cuts there
RECURSIVE Scan(_, _, _)
Scan(v, from, pos) ==
    LET ahead == {i \in Boundaries(v) : i >= from} IN
    IF ahead = {}
    THEN Exhausted(v, pos)
    ELSE LET index == CHOOSE i \in ahead : \A j \in ahead : i <= j IN
         IF ~SliceOk(v, pos, index + 1)
         THEN [res |-> Panic, value |-> v]
         ELSE LET str_statement == ByteSlice(v, pos, index + 1) IN
              IF StartsWith(str_statement, ";") \/ str_statement = <<>>
              THEN Scan(v, index + 1, index + 1)
              ELSE [res |-> Some(Trim(str_statement)),
                    value |-> ByteSliceFrom(v, index + 1)]

\* next(): embedded = false, pos = 0
StrStatements_next(v) == Scan(v, 0, 0)

----------------------------------------------------------------------------
(* The segmenter on its own: every buffer up to MaxLen characters *)

SegAlphabet == {"a", " ", ";", "'", Wide}

RECURSIVE StringsUpTo(_, _)
StringsUpTo(alphabet, n) ==
    IF n = 0 THEN {<<>>}
    ELSE LET shorter == StringsUpTo(alphabet, n - 1) IN
         shorter \cup {Append(s, c) : s \in {t \in shorter : Len(t) = n - 1}, c \in alphabet}

NoRouting == [to |-> "none", raw |-> <<>>, joined |-> <<>>, state |-> "Idle",
              lines |-> <<>>, command |-> <<>>, args |-> <<>>]

\* get_str_statements(str), lines 71-73, in a process that does nothing else
SegInit ==
    /\ value \in StringsUpTo(SegAlphabet, MaxLen)
    /\ orig = value
    /\ before = value
    /\ result = NoCall
    /\ yielded = <<>>
    /\ pc = "iter"
    /\ leftovers = <<>>
    /\ prompt = <<>>
    /\ history = <<>>
    /\ routed = NoRouting
    /\ executed = <<>>
    /\ fragments = <<>>
    /\ discarded = <<>>
    /\ lastRead = "none"
    /\ reads = 0
    /\ exitStatus = -1
    /\ saved = FALSE

\* one call of next() that yields a statement
SegYield ==
    /\ pc = "iter"
    /\ LET r == StrStatements_next(value) IN
       /\ r.res.kind = "Some"
       /\ before' = value
       /\ value' = r.value
       /\ result' = r.res
       /\ yielded' = Append(yielded, r.res.stmt)
    /\ UNCHANGED <<orig, pc>>
    /\ UNCHANGED replVars

\* one call of next() that returns None
SegNone ==
    /\ pc = "iter"
    /\ LET r == StrStatements_next(value) IN
       /\ r.res.kind = "None"
       /\ before' = value
       /\ value' = r.value
       /\ result' = r.res
    /\ UNCHANGED <<yielded, orig, pc>>
    /\ UNCHANGED replVars

\* one call of next() in which a slice panics: the process aborts
SegPanic ==
    /\ pc = "iter"
    /\ LET r == StrStatements_next(value) IN
       /\ r.res.kind = "Panic"
       /\ before' = value
       /\ value' = r.value
       /\ result' = r.res
    /\ pc' = "aborted"
    /\ exitStatus' = 101
    /\ UNCHANGED <<yielded, orig>>
    /\ UNCHANGED <<leftovers, prompt, history, routed, executed, fragments, discarded,
                   lastRead, reads, saved>>

SegNext == SegYield \/ SegNone \/ SegPanic

SegSpec == SegInit /\ [][SegNext]_vars

----------------------------------------------------------------------------
(* run_statement, list_tables, run_command *)

\* the outcomes of connection.prepare and execute for one statement
\* ("row_error": an error raised while the rows are produced, line 38)
Outcomes == {"prepare_error", "execute_error", "row_error", "no_rows", "rows"}

\* what run_statement did with one statement: lines 77-101
Ran(stmt, outcome) ==
    [stmt |-> stmt,
     prepared |-> outcome # "prepare_error",
     executed |-> outcome # "prepare_error",
     reported |-> outcome \in {"prepare_error", "execute_error"},
     printed |-> outcome = "rows",
     outcome |-> outcome,
     aborted |-> outcome = "row_error"]

\* run_statement(connection, statement) is entered: get_str_statements(statement)
EnterRunStatement(statement) ==
    /\ value' = statement
    /\ orig' = statement
    /\ before' = statement
    /\ result' = NoCall
    /\ yielded' = <<>>
    /\ pc' = "run"

\* one turn of the for loop of run_statement: next() yields a statement, which is
\* prepared and executed with the given outcome; in every case the loop goes on
RunOne(outcome) ==
    /\ pc = "run"
    /\ LET r == StrStatements_next(value) IN
       /\ r.res.kind = "Some"
       /\ before' = value
       /\ value' = r.value
       /\ result' = r.res
       /\ yielded' = Append(yielded, r.res.stmt)
       /\ executed' = Append(executed, Ran(r.res.stmt, outcome))
    /\ UNCHANGED <<orig, pc, leftovers, prompt, history, routed, fragments, discarded,
                   lastRead, reads, exitStatus, saved>>

\* a prepare failure that returns from run_statement instead of continuing
RunPrepareFailsAndReturns ==
    /\ pc = "run"
    /\ LET r == StrStatements_next(value) IN
       /\ r.res.kind = "Some"
       /\ before' = value
       /\ value' = r.value
       /\ result' = r.res
       /\ yielded' = Append(yielded, r.res.stmt)
       /\ executed' = Append(executed, Ran(r.res.stmt, "prepare_error"))
    /\ pc' = "read"
    /\ UNCHANGED <<orig, leftovers, prompt, history, routed, fragments, discarded,
                   lastRead, reads, exitStatus, saved>>

\* lines 77-82: prepare fails, the error is printed, continue
RunPrepareFails == RunOne("prepare_error")

\* lines 84-89: execute fails, the error is printed, continue
RunExecuteFails == RunOne("execute_error")

\* lines 91-93: no rows, continue
RunNoRows == RunOne("no_rows")

\* lines 94-101: the rows are printed as a table
RunPrintsTable == RunOne("rows")

\* line 38: a row is an Err (an error raised while the statement is stepped),
\* r.unwrap() panics inside execute and the process aborts with status 101
RunRowErrorPanics ==
    /\ pc = "run"
    /\ LET r == StrStatements_next(value) IN
       /\ r.res.kind = "Some"
       /\ before' = value
       /\ value' = r.value
       /\ result' = r.res
       /\ yielded' = Append(yielded, r.res.stmt)
       /\ executed' = Append(executed, Ran(r.res.stmt, "row_error"))
    /\ pc' = "aborted"
    /\ exitStatus' = 101
    /\ UNCHANGED <<orig, leftovers, prompt, history, routed, fragments, discarded,
                   lastRead, reads, saved>>

\* next() returns None: the for loop and run_statement end, back in the read loop
RunDone ==
    /\ pc = "run"
    /\ LET r == StrStatements_next(value) IN
       /\ r.res.kind = "None"
       /\ before' = value
       /\ value' = r.value
       /\ result' = r.res
    /\ pc' = "read"
    /\ UNCHANGED <<yielded, orig, executed, leftovers, prompt, history, routed, fragments,
                   discarded, lastRead, reads, exitStatus, saved>>

\* a slice in next() panics: the process aborts with status 101
RunPanics ==
    /\ pc = "run"
    /\ LET r == StrStatements_next(value) IN
       /\ r.res.kind = "Panic"
       /\ before' = value
       /\ value' = r.value
       /\ result' = r.res
    /\ pc' = "aborted"
    /\ exitStatus' = 101
    /\ UNCHANGED <<yielded, orig, executed, leftovers, prompt, history, routed, fragments,
                   discarded, lastRead, reads, saved>>

ListTablesSelect ==
    <<"S", "E", "L", "E", "C", "T", " ", "n", "a", "m", "e", " ", "F", "R", "O", "M", " ",
      "s", "q", "l", "i", "t", "e", "_", "s", "c", "h", "e", "m", "a", " ", "W", "H", "E", "R",
      "E", " ", "t", "y", "p", "e", " ", "=", "'", "t", "a", "b", "l", "e", "'", " ", "A", "N",
      "D", " ", "n", "a", "m", "e", " ", "N", "O", "T", " ", "L", "I", "K", "E", " ", "'", "s",
      "q", "l", "i", "t", "e", "_", "%", "'">>

\* the statement list_tables builds: args is the argument list of the directive
ListTablesStatement(args) ==
    IF args # <<>>
    THEN ListTablesSelect \o <<"A", "N", "D", " ", "n", "a", "m", "e", " ", "L", "I", "K", "E", " ">>
             \o args[1] \o <<";">>
    ELSE ListTablesSelect \o <<";">>

QUIT == <<"q", "u", "i", "t">>
TABLES == <<"t", "a", "b", "l", "e", "s">>

----------------------------------------------------------------------------
(* main: the read loop *)

PrimaryPrompt == <<"l", "i", "b", "s", "q", "l", ">", " ">>
ContinuationPrompt == <<".", ".", ".", " ", " ", " ", ">", " ">>

\* a prompt that ignores the carry-over text
PromptAlwaysPrimary(l) == PrimaryPrompt

\* lines 143-147
Prompt(l) == IF l = <<>> THEN PrimaryPrompt ELSE ContinuationPrompt

\* the raw lines readline returns in the model
Lines ==
    { <<>>,
      <<"a">>,
      <<" ", "b", ";", " ">>,
      <<"a", ";", "b", ";">>,
      <<";">>,
      <<"'", ";">>,
      <<Wide, ";">>,
      <<".", "q", "u", "i", "t">>,
      <<".", "t", "a", "b", "l", "e", "s">>,
      <<".", "t", "a", "b", "l", "e", "s", " ", "a">>,
      <<".", "x", " ", "a", " ", " ", "b">>,
      <<".", "x", TAB, "a">> }

\* line 151: leftovers + line.trim_end()
Joined(l, line) == l \o TrimEnd(line)

\* a completeness test that ignores the directive marker
CompleteOnlyOnTerminator(joined) == EndsWith(joined, ";")

\* line 152: the logical unit is complete
Complete(joined) == EndsWith(joined, ";") \/ StartsWith(joined, ".")

\* a carry-over without the separating space
CarryOverNoSeparator(joined) == joined

\* line 155: the text carried over to the next read
CarryOver(joined) == joined \o <<" ">>

\* an add_history_entry that is skipped
HistoryEntryDropped(h, line) == h

\* line 158: rl.add_history_entry(&line)
AddHistoryEntry(h, line) == Append(h, line)

\* line 159: the unit is a directive
IsDirective(joined) == StartsWith(joined, ".")

\* str::split_once(' '): the position of the first space, 0 when there is none
FirstSpace(s) ==
    IF \E i \in 1..Len(s) : s[i] = " "
    THEN CHOOSE i \in 1..Len(s) : s[i] = " " /\ \A j \in 1..(i - 1) : s[j] # " "
    ELSE 0

\* the length of the leading run of s without whitespace
RECURSIVE WordLen(_)
WordLen(s) == IF s = <<>> \/ IsWhitespace(Head(s)) THEN 0 ELSE 1 + WordLen(Tail(s))

\* str::split_whitespace, collected
RECURSIVE SplitWhitespace(_)
SplitWhitespace(s) ==
    LET t == TrimStart(s) IN
    IF t = <<>> THEN <<>>
    ELSE <<SubSeq(t, 1, WordLen(t))>> \o SplitWhitespace(SubSeq(t, WordLen(t) + 1, Len(t)))

\* a split that takes everything after the marker as the name
SplitCommandNoArgs(joined) == [command |-> ByteSliceFrom(joined, 1), args |-> <<>>]

\* lines 160-164: the directive's name and arguments
SplitCommand(joined) ==
    LET cmd == ByteSliceFrom(joined, 1)
        sp == FirstSpace(cmd) IN
    IF sp # 0
    THEN [command |-> SubSeq(cmd, 1, sp - 1),
          args |-> SplitWhitespace(SubSeq(cmd, sp + 1, Len(cmd)))]
    ELSE [command |-> cmd, args |-> <<>>]

AccState(l) == IF l = <<>> THEN "Idle" ELSE "Pending"

\* what every readline call does to the bookkeeping
ReadCall(kind) ==
    /\ pc = "read"
    /\ prompt' = Prompt(leftovers)
    /\ lastRead' = kind
    /\ reads' = reads + 1
    /\ executed' = <<>>

Routing(to, line, joined, cmd) ==
    [to |-> to, raw |-> line, joined |-> joined, state |-> AccState(leftovers),
     lines |-> Append(fragments, line), command |-> cmd.command, args |-> cmd.args]

NoCommand == [command |-> <<>>, args |-> <<>>]

\* Ok(line), the unit is not complete: lines 151-157
ReadContinuation ==
    /\ reads < MaxReads
    /\ \E line \in Lines :
        LET joined == Joined(leftovers, line) IN
        /\ ~Complete(joined)
        /\ ReadCall("line")
        /\ leftovers' = CarryOver(joined)
        /\ fragments' = Append(fragments, line)
        /\ routed' = Routing("pending", line, joined, NoCommand)
    /\ UNCHANGED <<value, before, result, yielded, orig, pc, history, discarded,
                   exitStatus, saved>>

\* Ok(line), the unit is complete and is SQL: lines 151-158, 165-167
ReadStatement ==
    /\ reads < MaxReads
    /\ \E line \in Lines :
        LET joined == Joined(leftovers, line) IN
        /\ Complete(joined)
        /\ ~IsDirective(joined)
        /\ ReadCall("line")
        /\ leftovers' = <<>>
        /\ fragments' = <<>>
        /\ history' = AddHistoryEntry(history, joined)
        /\ routed' = Routing("statement", line, joined, NoCommand)
        /\ EnterRunStatement(joined)
    /\ UNCHANGED <<discarded, exitStatus, saved>>

\* Ok(line), the unit is the directive quit: std::process::exit(0), line 116
ReadQuit ==
    /\ reads < MaxReads
    /\ \E line \in Lines :
        LET joined == Joined(leftovers, line) IN
        /\ Complete(joined)
        /\ IsDirective(joined)
        /\ SplitCommand(joined).command = QUIT
        /\ ReadCall("line")
        /\ leftovers' = <<>>
        /\ fragments' = <<>>
        /\ history' = AddHistoryEntry(history, joined)
        /\ routed' = Routing("command", line, joined, SplitCommand(joined))
        /\ pc' = "exited"
        /\ exitStatus' = 0
    /\ UNCHANGED <<value, before, result, yielded, orig, discarded, saved>>

\* Ok(line), the unit is the directive tables: list_tables, lines 105-112, 117
ReadTables ==
    /\ reads < MaxReads
    /\ \E line \in Lines :
        LET joined == Joined(leftovers, line) IN
        /\ Complete(joined)
        /\ IsDirective(joined)
        /\ SplitCommand(joined).command = TABLES
        /\ ReadCall("line")
        /\ leftovers' = <<>>
        /\ fragments' = <<>>
        /\ history' = AddHistoryEntry(history, joined)
        /\ routed' = Routing("command", line, joined, SplitCommand(joined))
        /\ EnterRunStatement(ListTablesStatement(SplitCommand(joined).args))
    /\ UNCHANGED <<discarded, exitStatus, saved>>

\* Ok(line), the unit is any other directive: "Unknown command", line 118
ReadUnknownCommand ==
    /\ reads < MaxReads
    /\ \E line \in Lines :
        LET joined == Joined(leftovers, line) IN
        /\ Complete(joined)
        /\ IsDirective(joined)
        /\ SplitCommand(joined).command \notin {QUIT, TABLES}
        /\ ReadCall("line")
        /\ leftovers' = <<>>
        /\ fragments' = <<>>
        /\ history' = AddHistoryEntry(history, joined)
        /\ routed' = Routing("command", line, joined, SplitCommand(joined))
    /\ UNCHANGED <<value, before, result, yielded, orig, pc, discarded,
                   exitStatus, saved>>

\* an interrupt that keeps the pending text
LeftoversKeptOnInterrupt(l) == l

\* line 170: the carry-over text after an interrupt
LeftoversAfterInterrupt(l) == <<>>

\* Err(ReadlineError::Interrupted): lines 169-172
ReadInterrupted ==
    /\ reads < MaxReads
    /\ ReadCall("interrupted")
    /\ leftovers' = LeftoversAfterInterrupt(leftovers)
    /\ discarded' = leftovers
    /\ fragments' = <<>>
    /\ UNCHANGED <<value, before, result, yielded, orig, pc, history, routed, exitStatus, saved>>

\* an end-of-input that flushes the pending text to run_statement
ReadEofFlushesPending ==
    /\ ReadCall("eof")
    /\ EnterRunStatement(leftovers)
    /\ UNCHANGED <<leftovers, history, routed, fragments, discarded, exitStatus, saved>>

\* Err(ReadlineError::Eof): break, save_history, Ok(()): lines 173-175, 182-183
ReadEof ==
    /\ ReadCall("eof")
    /\ pc' = "exited"
    /\ saved' = TRUE
    /\ exitStatus' = 0
    /\ UNCHANGED <<value, before, result, yielded, orig, leftovers, history, routed,
                   fragments, discarded>>

\* Err(err): the error is printed, break, save_history, Ok(()): lines 176-179, 182-183
ReadError ==
    /\ ReadCall("error")
    /\ pc' = "exited"
    /\ saved' = TRUE
    /\ exitStatus' = 0
    /\ UNCHANGED <<value, before, result, yielded, orig, leftovers, history, routed,
                   fragments, discarded>>

\* the state when the read loop is entered: line 141
Init ==
    /\ value = <<>>
    /\ orig = <<>>
    /\ before = <<>>
    /\ result = NoCall
    /\ yielded = <<>>
    /\ pc = "read"
    /\ leftovers = <<>>
    /\ prompt = <<>>
    /\ history = <<>>
    /\ routed = NoRouting
    /\ executed = <<>>
    /\ fragments = <<>>
    /\ discarded = <<>>
    /\ lastRead = "none"
    /\ reads = 0
    /\ exitStatus = -1
    /\ saved = FALSE

Next ==
    \/ ReadContinuation
    \/ ReadStatement
    \/ ReadQuit
    \/ ReadTables
    \/ ReadUnknownCommand
    \/ ReadInterrupted
    \/ ReadEof
    \/ ReadError
    \/ RunPrepareFails
    \/ RunExecuteFails
    \/ RunNoRows
    \/ RunPrintsTable
    \/ RunRowErrorPanics
    \/ RunDone
    \/ RunPanics

Spec == Init /\ [][Next]_vars

----------------------------------------------------------------------------
(* Properties of the segmenter *)

\* number of ' characters strictly before the (1-based) position i of s
QuotesBefore(s, i) == Cardinality({j \in 1..(i - 1) : s[j] = "'"})

\* position i of s holds a ';' inside a single-quoted region
QuotedSemi(s, i) == i \in 1..Len(s) /\ s[i] = ";" /\ QuotesBefore(s, i) % 2 = 1

UnquotedSemi(s, i) == i \in 1..Len(s) /\ s[i] = ";" /\ QuotesBefore(s, i) % 2 = 0

Balanced(s) == QuotesBefore(s, Len(s) + 1) % 2 = 0

\* position of the last ' of s, 0 when there is none
LastQuote(s) ==
    IF \E j \in 1..Len(s) : s[j] = "'"
    THEN CHOOSE j \in 1..Len(s) : s[j] = "'" /\ \A k \in (j + 1)..Len(s) : s[k] # "'"
    ELSE 0

\* position, in the buffer before the call, of the last character the call consumed
CutAt == Len(before) - Len(value)

\* C1: next never cuts at a ';' inside a single-quoted region: the last
\* character of what a call consumed is never a ';' preceded, in the buffer
\* of that call, by an odd number of quotes; and when the buffer's last quote
\* opens a region that never closes, nothing at or after it is yielded.
C1_NeverCutsInsideQuotes ==
    result.kind = "Some" =>
        /\ ~QuotedSemi(before, CutAt)
        /\ (~Balanced(before) => CutAt < LastQuote(before))

\* the segments of s obtained by cutting after every unquoted ';', from
\* position i on, the current segment starting at `start`
RECURSIVE SegmentsFrom(_, _, _)
SegmentsFrom(s, start, i) ==
    IF i > Len(s) THEN <<>>
    ELSE IF UnquotedSemi(s, i)
         THEN <<SubSeq(s, start, i)>> \o SegmentsFrom(s, i + 1, i + 1)
         ELSE SegmentsFrom(s, start, i + 1)

TrimAll(segs) == [k \in 1..Len(segs) |-> Trim(segs[k])]

IsBareTerminator(t) == t = <<";">>

NotBareTerminator(t) == ~IsBareTerminator(t)

\* the statements of s: its trimmed segments, bare terminators omitted
ExpectedStatements(s) == SelectSeq(TrimAll(SegmentsFrom(s, 1, 1)), NotBareTerminator)

\* C2: for a buffer with balanced quotes, the statements yielded until next
\* returns None are exactly the trimmed segments of the buffer cut after every
\* unquoted ';', bare terminators omitted, in order, each once.
C2_YieldsExactlyTheSegments ==
    (result.kind = "None" /\ Balanced(orig)) => yielded = ExpectedStatements(orig)

\* C3: every yielded statement is non-empty, has no leading or trailing
\* whitespace, ends with ';' and is not the bare terminator ';'.
C3_StatementWellFormed ==
    result.kind = "Some" =>
        LET s == result.stmt IN
        /\ s # <<>>
        /\ ~IsWhitespace(s[1])
        /\ ~IsWhitespace(s[Len(s)])
        /\ EndsWith(s, ";")
        /\ ~IsBareTerminator(s)

\* C4: whenever next returns None the buffer is what it was before the call.
C4_NoneLeavesBufferAsIs ==
    result.kind = "None" => value = before

\* a call returned None after skipping a bare terminator, with text left over
C4_Witness ==
    /\ result.kind = "None"
    /\ yielded # <<>>
    /\ StartsWith(value, ";")
    /\ Len(value) >= 2

----------------------------------------------------------------------------
(* Properties of the read loop *)

\* the step is a readline call that returned `kind`
ReadStep(kind) == reads' = reads + 1 /\ lastRead' = kind

Emitted == routed.to \in {"command", "statement"}

\* C5: reading a line L with pending text P: joined is P followed by L without
\* its trailing whitespace; if joined ends with ';' or begins with '.', the
\* accumulator becomes Idle and exactly joined is emitted; otherwise it becomes
\* Pending(joined and one space), nothing is emitted or executed, and the loop
\* reads again.
C5_AccumulatorTransition ==
    [][ReadStep("line") =>
          LET P == leftovers
              L == routed'.raw
              joined == P \o TrimEnd(L) IN
          IF EndsWith(joined, ";") \/ StartsWith(joined, ".")
          THEN /\ leftovers' = <<>>
               /\ routed'.to \in {"command", "statement"}
               /\ routed'.joined = joined
               /\ routed'.to = "statement" => (pc' = "run" /\ orig' = joined)
          ELSE /\ leftovers' = joined \o <<" ">>
               /\ routed'.to = "pending"
               /\ pc' = "read"
               /\ executed' = <<>>
               /\ UNCHANGED <<value, orig, yielded, result, history>>]_vars

\* a unit made of two or more lines was emitted to run_statement
C5_Witness ==
    /\ routed.to = "statement"
    /\ routed.state = "Pending"
    /\ Len(routed.lines) >= 2
    /\ pc = "run"

OnlyWhitespaceAndTerminators(s) ==
    \A i \in 1..Len(s) : IsWhitespace(s[i]) \/ s[i] = ";"

\* C6: a unit is handed to the segmenter only when the ';' at its end is
\* outside single-quoted literals, so once the segmenter is exhausted nothing
\* but whitespace and bare terminators is left of it.
C6_CompleteOnlyOutsideQuotes ==
    routed.to = "statement" =>
        /\ UnquotedSemi(routed.joined, Len(routed.joined))
        /\ result.kind = "None" => OnlyWhitespaceAndTerminators(value)

HasNoSpace(s) == \A i \in 1..Len(s) : s[i] # " "

HasNoWhitespace(s) == \A i \in 1..Len(s) : ~IsWhitespace(s[i])

RECURSIVE Flatten(_)
Flatten(ss) == IF ss = <<>> THEN <<>> ELSE Head(ss) \o Flatten(Tail(ss))

WithoutWhitespace(s) == SelectSeq(s, LAMBDA c : ~IsWhitespace(c))

\* the number of places of s where a word starts
WordStarts(s) ==
    Cardinality({i \in 1..Len(s) :
        ~IsWhitespace(s[i]) /\ (i = 1 \/ IsWhitespace(s[i - 1]))})

\* command and args are text split at its first space into a name and the
\* whitespace-separated words after it
IsSplitOf(text, command, args) ==
    /\ HasNoSpace(command)
    /\ IF HasNoSpace(text)
       THEN command = text /\ args = <<>>
       ELSE /\ Len(command) < Len(text)
            /\ SubSeq(text, 1, Len(command) + 1) = command \o <<" ">>
            /\ LET rest == SubSeq(text, Len(command) + 2, Len(text)) IN
               /\ \A k \in 1..Len(args) : args[k] # <<>> /\ HasNoWhitespace(args[k])
               /\ Flatten(args) = WithoutWhitespace(rest)
               /\ Len(args) = WordStarts(rest)

RoutedAsDirective ==
    /\ routed.to = "command"
    /\ IsSplitOf(Tail(routed.joined), routed.command, routed.args)
    /\ orig # routed.joined
    /\ pc = "run" => routed.command = TABLES

\* C7 as stated: a raw line beginning with '.', in any accumulator state, is
\* routed to run_command, split into name and arguments, and not handed to the
\* segmenter.
C7_DotLineInAnyState ==
    StartsWith(routed.raw, ".") => RoutedAsDirective

\* C7, amended: a raw line beginning with '.' that is read while Idle is
\* routed to run_command, the text after the marker split at its first space
\* into a name and whitespace-separated arguments, and is not handed to the
\* segmenter.
C7_DotLineWhenIdle ==
    (StartsWith(routed.raw, ".") /\ routed.state = "Idle") => RoutedAsDirective

\* a directive with arguments was read while Idle
C7_Witness ==
    /\ StartsWith(routed.raw, ".")
    /\ routed.state = "Idle"
    /\ routed.to = "command"
    /\ Len(routed.args) >= 2

\* the lines, each without its trailing whitespace, joined by single spaces
RECURSIVE JoinFragments(_)
JoinFragments(ls) ==
    IF ls = <<>> THEN <<>>
    ELSE IF Len(ls) = 1 THEN TrimEnd(ls[1])
    ELSE JoinFragments(SubSeq(ls, 1, Len(ls) - 1)) \o <<" ">> \o TrimEnd(ls[Len(ls)])

\* C8: an interrupt sets the accumulator to Idle, emits and executes nothing;
\* every unit emitted consists only of the lines read since the last interrupt
\* or emission, so none of the discarded text is in it.
C8_InterruptDiscardsPending ==
    /\ [][ReadStep("interrupted") =>
            /\ leftovers' = <<>>
            /\ pc' = "read"
            /\ executed' = <<>>
            /\ UNCHANGED <<value, orig, yielded, result, history, routed>>]_vars
    /\ [](Emitted => routed.joined = JoinFragments(routed.lines))

\* a unit was emitted after an interrupt had discarded pending text
C8_Witness ==
    /\ discarded # <<>>
    /\ lastRead = "line"
    /\ routed.to = "statement"
    /\ leftovers = <<>>

\* C9: on end-of-input the loop stops in either accumulator state: the pending
\* text is not emitted, nothing is executed, and no step follows.
C9_EofStopsTheLoop ==
    /\ [][ReadStep("eof") =>
            /\ pc' = "exited"
            /\ executed' = <<>>
            /\ UNCHANGED <<value, orig, yielded, result, history, routed, leftovers>>]_vars
    /\ [][pc = "exited" => UNCHANGED vars]_vars

\* end-of-input arrived while text was pending
C9_Witness ==
    /\ lastRead = "eof"
    /\ pc = "exited"
    /\ leftovers # <<>>
    /\ Len(leftovers) >= 2

StatementsOf(log) == [k \in 1..Len(log) |-> log[k].stmt]

\* C10: run_statement prepares the statements the segmenter yields one at a
\* time, in order; a statement that fails to prepare is reported and not
\* executed, and the loop goes on until the segmenter is exhausted.
C10_SequentialAndContinuesAfterPrepareError ==
    /\ (pc = "run" \/ executed # <<>>) => StatementsOf(executed) = yielded
    /\ \A k \in 1..Len(executed) :
          ~executed[k].prepared => (executed[k].reported /\ ~executed[k].executed)
    /\ (pc = "read" /\ executed # <<>>) => result.kind = "None"

\* a statement was executed after an earlier one of the unit failed to prepare
C10_Witness ==
    \E k, j \in 1..Len(executed) :
        /\ k < j
        /\ ~executed[k].prepared
        /\ executed[j].executed
        /\ executed[j].printed

----------------------------------------------------------------------------
(* Properties of execution, exit and history *)

ExecutionFailed(e) == e.outcome \in {"execute_error", "row_error"}

\* C11: an execution failure of a prepared statement, also one raised while
\* its rows are produced, is reported as a message and does not end the
\* process.
C11_ExecutionFailureNonFatal ==
    \A k \in 1..Len(executed) :
        ExecutionFailed(executed[k]) => (executed[k].reported /\ ~executed[k].aborted)

\* how the process ended
EndedByEof == pc = "exited" /\ lastRead = "eof"
EndedByQuit == pc = "exited" /\ lastRead = "line"
EndedByReadError == pc = "exited" /\ lastRead = "error"

\* C12: the process exits with status 0 on end-of-input and on quit, and with
\* a non-zero status when reading a line failed with any other error.
C12_ExitStatus ==
    /\ (EndedByEof \/ EndedByQuit) => exitStatus = 0
    /\ EndedByReadError => exitStatus # 0

\* C13: on every normal termination (end-of-input or quit) the history has
\* been saved before the process exits.
C13_HistorySavedOnNormalExit ==
    (EndedByEof \/ EndedByQuit) => saved

C15_NoDirectiveInHistory ==
    \A k \in 1..Len(history) : ~StartsWith(history[k], ".")

\* C16: at every read the prompt is the primary one exactly when there is no
\* pending text (at startup, after an emission, after an interrupt), and the
\* continuation one exactly when the previous line did not complete a unit.
C16_PromptReflectsState ==
    [][reads' = reads + 1 =>
          /\ (lastRead = "none" \/ lastRead = "interrupted" \/ (lastRead = "line" /\ Emitted))
                => prompt' = PrimaryPrompt
          /\ (lastRead = "line" /\ routed.to = "pending")
                => prompt' = ContinuationPrompt
          /\ prompt' = PrimaryPrompt <=> leftovers = <<>>]_vars

\* a line was read at the continuation prompt, after an empty line
C16_Witness ==
    /\ prompt = ContinuationPrompt
    /\ reads >= 2
    /\ fragments # <<>>
    /\ fragments[1] = <<>>

RECURSIVE StripLeadingSemis(_)
StripLeadingSemis(s) ==
    IF StartsWith(s, ";") THEN StripLeadingSemis(Tail(s)) ELSE s

\* C17: after a successful extraction the old buffer is the consumed prefix
\* followed by the new buffer; the prefix is skipped bare terminators followed
\* by the untrimmed statement, and ends with the boundary ';'.
C17_BufferIsSuffixAfterBoundary ==
    result.kind = "Some" =>
        LET prefix == SubSeq(before, 1, CutAt) IN
        /\ before = prefix \o value
        /\ UnquotedSemi(before, CutAt)
        /\ Trim(StripLeadingSemis(prefix)) = result.stmt

\* C18: next does not abort, and the cut falls immediately after the boundary
\* it found: the byte offset sliced at is that of the character index tested.
C18_NoAbortAndCutAtBoundary ==
    /\ result.kind # "Panic"
    /\ result.kind = "Some" =>
          \E index \in Boundaries(before) :
              /\ CutAt = index + 1
              /\ CharOffsets(before)[index + 1] = index + 1

Count(s, c) == Cardinality({i \in 1..Len(s) : s[i] = c})

\* C19: a call that yields strictly shortens the buffer, the statements
\* yielded are at most the ';' of the buffer, and after a None every further
\* call returns None.
C19_IterationTerminates ==
    /\ [](result.kind = "Some" => ByteLen(value) < ByteLen(before))
    /\ [](Len(yielded) <= Count(orig, ";"))
    /\ [][result.kind = "None" /\ pc = "iter" => result'.kind = "None"]_vars

\* C20: leftovers is empty, or ends with the appended space, does not begin
\* with '.', and the text before the final space does not end with ';'; it is
\* empty right after every emission and every interrupt.
C20_LeftoversShape ==
    /\ [](leftovers = <<>> \/
            /\ EndsWith(leftovers, " ")
            /\ ~StartsWith(leftovers, ".")
            /\ ~EndsWith(SubSeq(leftovers, 1, Len(leftovers) - 1), ";"))
    /\ [][(ReadStep("interrupted") \/ (ReadStep("line") /\ routed'.to \in {"command", "statement"}))
            => leftovers' = <<>>]_vars

\* text of two lines is pending
C20_Witness ==
    /\ Len(fragments) >= 2
    /\ Len(leftovers) >= 4
    /\ lastRead = "line"

====
